---- MODULE Spec2Model ----
(***************************************************************************)
(* Model of src/deriv_bot.py: the DerivBot engine (one executor thread per *)
(* signal, sharing one DerivAPI connection and the running flag) and the   *)
(* DerivAPI venue client (safe_send / connect / recv / buy).               *)
(***************************************************************************)
EXTENDS Integers, Sequences, FiniteSets, TLC

VARIABLES
    \* ---- DerivBot (engine) ----
    running,         \* DerivBot.running
    thread,          \* DerivBot.thread / position of _run: none, connect, spawn, join, done
    self_win_amount, \* DerivBot.win_amount  (set in __init__)
    self_loss_amount,\* DerivBot.loss_amount (set in __init__)
    stop_win,        \* DerivBot.stop_win
    stop_loss,       \* DerivBot.stop_loss
    signals,         \* DerivBot.signals: per signal [stop_win, stop_loss, martingale]
    pc,              \* position of each _run_signal thread
    current_stake,   \* local current_stake of each _run_signal
    win_amount,      \* local win_amount of each _run_signal
    loss_amount,     \* local loss_amount of each _run_signal
    profit,          \* local profit of each _run_signal
    attempt,         \* loop variable of DerivAPI.buy in each executor
    contract_id,     \* contract id each executor extracted from its buy response
    attempts,        \* poll counter of _wait_result in each executor
    \* ---- the connection and the venue behind it ----
    inbox,           \* messages the venue has written and nobody has read yet
    subs,            \* contract ids with a live proposal_open_contract stream
    orders,          \* per executor: buy requests of its current buy call the venue has received
    faults,          \* transport failures injected so far
    \* ---- history ----
    buys,            \* per executor: calls of api.buy made
    sum_win,         \* sum of the positive profits the executors have settled
    sum_loss,        \* sum of -profit over the non-positive settlements
    cleared_by,      \* executor that cleared running on a global stop (0: none)
    \* ---- DerivAPI (one caller, a transport that may fail) ----
    ws,              \* DerivAPI.ws: "none" or "sock"
    stack,           \* call stack of the DerivAPI methods in progress
    ret,             \* how the last call ended: "none", "ok" or "exc"
    retval,          \* what it returned
    op,              \* the method the caller called
    was_open,        \* whether self.ws was set when the caller called
    api_faults,      \* transport failures injected so far
    noise,           \* messages other than a buy response read so far
    n_reconnect,     \* connect() calls made by the except handlers of safe_send and recv in this call
    n_write,         \* ws.send calls for the caller's message in this call
    n_read,          \* ws.recv calls made by recv() in this call
    \* ---- DerivBot: start(), stop() and the pinger thread ----
    auth,            \* what _run's connect() got: "none", "authorized", "error", "unreachable"
    pinger,          \* position of ping_loop: none, check, send, done
    last_ping,       \* how the last keepalive went: "none", "sent" or "failed"
    pings,           \* keepalives ping_loop has tried to send
    stopper,         \* position of a stop() call: none, join, returned
    n_start,         \* calls of start() made
    n_run,           \* _run threads launched
    \* ---- BotUI: the schedule text and what load_signals and start_bot make of it ----
    signals_text,    \* the lines of BotUI.signals_text
    ui_vars,         \* stop_win_var, stop_loss_var and martingale_var of the window
    row_signals,     \* BotUI.row_signals: the Signal objects in insertion order
    row_lines,       \* for each row, the line it was parsed from
    load_error,      \* "shown" when the last load_signals ended in messagebox.showerror
    loaded,          \* load_signals has run
    bot_signals,     \* signals of the DerivBot that start_bot built, in list order
    \* ---- time ----
    now,             \* the clock datetime.now() reads, in seconds
    sig_time,        \* Signal.time of each signal of DerivBot.signals
    delay,           \* DerivBot.delay
    wake_at          \* per executor: the instant its time.sleep(wait_time) is over

evars == << running, thread, self_win_amount, self_loss_amount, stop_win, stop_loss,
            signals, pc, current_stake, win_amount, loss_amount, profit, attempt,
            contract_id, attempts, inbox, subs, orders, faults, buys, sum_win, sum_loss,
            cleared_by >>

avars == << ws, stack, ret, retval, op, was_open, api_faults, noise, n_reconnect, n_write,
            n_read >>

lvars == << auth, pinger, last_ping, pings, stopper, n_start, n_run >>

pvars == << signals_text, ui_vars, row_signals, row_lines, load_error, loaded,
            bot_signals >>

tvars == << now, sig_time, delay, wake_at >>

vars == << evars, avars, lvars, pvars, tvars >>

-----------------------------------------------------------------------------
(* Bounds of the model *)

MaxBuys == 3         \* api.buy calls made in one run
MaxFaults == 1       \* transport failures injected in one run
MaxStarts == 2       \* calls of start() on one bot
MaxPings == 2        \* keepalives the pinger tries to send in one run
MaxLines == 2        \* lines of the schedule text
MaxInbox == 2        \* unread messages beyond which the venue holds its interim updates back
MaxClock == 2        \* seconds the clock is followed through

(* Program constants *)

Retries == 3         \* DerivAPI.buy(retries=3)
PollLimit == 300     \* _wait_result: while attempts < 300
BaseStake == 1       \* DerivBot.__init__(stake=1.0)

Sigs == 1 .. 2                     \* the executors: two signals in the schedule
Thresholds == {0, 2}               \* 0: threshold not set
Profits == {-1, 0, 2}              \* profits the venue may report

\* the settings a signal or the bot is given: both thresholds unset or both set
Limits == {[stop_win |-> t, stop_loss |-> t] : t \in Thresholds}
SignalSettings == {[stop_win |-> l.stop_win, stop_loss |-> l.stop_loss, martingale |-> m] :
                     l \in Limits, m \in BOOLEAN}

NoContract == 0
\* the id the venue gives the n-th order it receives from call b of executor e
ContractId(e, b, n) == e * 100 + b * 10 + n
OwnerOf(cid) == cid \div 100

BuyAck(cid) == [type |-> "buy", cid |-> cid, sold |-> FALSE, profit |-> 0]
Update(cid, sold, p) == [type |-> "poc", cid |-> cid, sold |-> sold, profit |-> p]

-----------------------------------------------------------------------------
(* DerivBot.__init__ *)

InitEngine ==
    /\ running = FALSE
    /\ thread = "none"
    /\ self_win_amount = 0
    /\ self_loss_amount = 0
    /\ \E l \in Limits : stop_win = l.stop_win /\ stop_loss = l.stop_loss
    /\ signals \in [Sigs -> SignalSettings]
    /\ pc = [e \in Sigs |-> "idle"]
    /\ current_stake = [e \in Sigs |-> BaseStake]
    /\ win_amount = [e \in Sigs |-> 0]
    /\ loss_amount = [e \in Sigs |-> 0]
    /\ profit = [e \in Sigs |-> -1]
    /\ attempt = [e \in Sigs |-> 0]
    /\ contract_id = [e \in Sigs |-> NoContract]
    /\ attempts = [e \in Sigs |-> 0]
    /\ inbox = << >>
    /\ subs = {}
    /\ orders = [e \in Sigs |-> 0]
    /\ faults = 0
    /\ buys = [e \in Sigs |-> 0]
    /\ sum_win = 0
    /\ sum_loss = 0
    /\ cleared_by = 0

\* DerivBot.__init__: self.running = False; self.thread = None
InitLifecycle ==
    /\ auth = "none"
    /\ pinger = "none"
    /\ last_ping = "none"
    /\ pings = 0
    /\ stopper = "none"
    /\ n_start = 0
    /\ n_run = 0

\* BotUI.__init__: an empty schedule text, no rows, no bot
InitUI ==
    /\ signals_text = << >>
    /\ ui_vars = [stop_win |-> 0, stop_loss |-> 0, martingale |-> FALSE]
    /\ row_signals = << >>
    /\ row_lines = << >>
    /\ load_error = "none"
    /\ loaded = FALSE
    /\ bot_signals = << >>

\* DerivBot.__init__(delay=0), and signals whose time is not in the future
InitTime ==
    /\ now = 0
    /\ sig_time = [e \in Sigs |-> 0]
    /\ delay = 0
    /\ wake_at = [e \in Sigs |-> 0]

\* DerivAPI.__init__: self.ws = None
InitApi ==
    /\ ws = "none"
    /\ stack = << >>
    /\ ret = "none"
    /\ retval = "none"
    /\ op = "none"
    /\ was_open = FALSE
    /\ api_faults = 0
    /\ noise = 0
    /\ n_reconnect = 0
    /\ n_write = 0
    /\ n_read = 0

-----------------------------------------------------------------------------
(* DerivBot.start, DerivBot._run *)

\* start(): no-op when running, else set the flag and launch _run.  The caller
\* (BotUI.start_bot) builds a new DerivBot for every start, so one bot object
\* sees one start.
Start ==
    /\ thread = "none"
    /\ ~running
    /\ running' = TRUE
    /\ thread' = "connect"
    /\ n_start' = n_start + 1
    /\ n_run' = n_run + 1
    /\ UNCHANGED << self_win_amount, self_loss_amount, stop_win, stop_loss, signals,
                    pc, current_stake, win_amount, loss_amount, profit, attempt,
                    contract_id, attempts, inbox, subs, orders, faults, buys,
                    sum_win, sum_loss, cleared_by >>
    /\ UNCHANGED << avars, auth, pinger, last_ping, pings, stopper >>
    /\ UNCHANGED << pvars, tvars >>

\* the other members of avars than ws
callvars == << stack, ret, retval, op, was_open, api_faults, noise, n_reconnect, n_write,
               n_read >>

\* what the venue's reply to the authorize message may be; "unreachable" stands
\* for a transport that fails before a reply is read
AuthReplies == {"authorized", "error", "unreachable"}

\* mutant: an error in the reply to the authorize message is not looked at
AfterConnectIgnoringError(reply) == "spawn"

\* _run after self.api.connect(): connect raises on an error reply (line 58)
\* and on a transport failure, _run catches nothing and its thread ends there
AfterConnect(reply) == IF reply = "authorized" THEN "spawn" ELSE "aborted"

\* _run: self.api.connect(); self._start_pinger()
RunConnect ==
    /\ thread = "connect"
    /\ ws' = "sock"
    /\ inbox' = << >>
    /\ subs' = {}
    /\ \E reply \in AuthReplies :
          /\ auth' = reply
          /\ thread' = AfterConnect(reply)
          /\ pinger' = IF AfterConnect(reply) = "spawn" THEN "check" ELSE pinger
    /\ UNCHANGED << running, self_win_amount, self_loss_amount, stop_win, stop_loss,
                    signals, pc, current_stake, win_amount, loss_amount, profit,
                    attempt, contract_id, attempts, orders, faults, buys,
                    sum_win, sum_loss, cleared_by >>
    /\ UNCHANGED << callvars, last_ping, pings, stopper, n_start, n_run >>
    /\ UNCHANGED << pvars, tvars >>

\* _run: for sig in self.signals: t = Thread(target=self._run_signal); t.start()
Spawn(e) ==
    /\ thread = "spawn"
    /\ pc[e] = "idle"
    /\ \A d \in Sigs : d < e => pc[d] # "idle"
    /\ pc' = [pc EXCEPT ![e] = "wait"]
    /\ thread' = IF \A d \in Sigs : d <= e THEN "join" ELSE "spawn"
    /\ UNCHANGED << running, self_win_amount, self_loss_amount, stop_win, stop_loss,
                    signals, current_stake, win_amount, loss_amount, profit, attempt,
                    contract_id, attempts, inbox, subs, orders, faults, buys,
                    sum_win, sum_loss, cleared_by >>
    /\ UNCHANGED << avars, lvars, pvars, tvars >>

Finished(e) == pc[e] \in {"done", "crashed"}

\* _run: for t in threads: t.join(); self.api.close(); self.running = False
RunFinish ==
    /\ thread = "join"
    /\ \A e \in Sigs : Finished(e)
    /\ thread' = "done"
    /\ running' = FALSE
    /\ ws' = IF ws = "none" THEN "none" ELSE "closed"
    /\ inbox' = << >>
    /\ subs' = {}
    /\ UNCHANGED << self_win_amount, self_loss_amount, stop_win, stop_loss, signals,
                    pc, current_stake, win_amount, loss_amount, profit, attempt,
                    contract_id, attempts, orders, faults, buys, sum_win, sum_loss,
                    cleared_by >>
    /\ UNCHANGED << callvars, lvars >>
    /\ UNCHANGED << pvars, tvars >>

-----------------------------------------------------------------------------
(* DerivBot._run_signal *)

\* mutant: the delay is taken off twice
WaitTimeDelayTwice(t, d, n) == t - d - d - n

\* wait_time = (sig.time - timedelta(seconds=self.delay) - now).total_seconds()
WaitTime(t, d, n) == t - d - n

\* win_amount = 0.0; loss_amount = 0.0; current_stake = self.stake; profit = -1.0
EnterLoop(e) ==
    /\ pc' = [pc EXCEPT ![e] = "loop"]
    /\ win_amount' = [win_amount EXCEPT ![e] = 0]
    /\ loss_amount' = [loss_amount EXCEPT ![e] = 0]
    /\ current_stake' = [current_stake EXCEPT ![e] = BaseStake]
    /\ profit' = [profit EXCEPT ![e] = -1]

\* the executor thread begins: now = datetime.now(); wait_time = ...;
\* if wait_time > 0: time.sleep(wait_time); else the locals are initialised
\* at once
Wake(e) ==
    /\ pc[e] = "wait"
    /\ LET wait_time == WaitTime(sig_time[e], delay, now) IN
         IF wait_time > 0
         THEN /\ pc' = [pc EXCEPT ![e] = "sleep"]
              /\ wake_at' = [wake_at EXCEPT ![e] = now + wait_time]
              /\ UNCHANGED << win_amount, loss_amount, current_stake, profit >>
         ELSE /\ EnterLoop(e)
              /\ UNCHANGED wake_at
    /\ UNCHANGED << running, thread, self_win_amount, self_loss_amount, stop_win,
                    stop_loss, signals, attempt, contract_id, attempts, inbox, subs,
                    orders, faults, buys, sum_win, sum_loss, cleared_by >>
    /\ UNCHANGED << avars, lvars, pvars, now, sig_time, delay >>

\* time.sleep(wait_time) returns, not before the time asked for has passed;
\* the locals are initialised
SleepEnd(e) ==
    /\ pc[e] = "sleep"
    /\ now >= wake_at[e]
    /\ EnterLoop(e)
    /\ UNCHANGED << running, thread, self_win_amount, self_loss_amount, stop_win,
                    stop_loss, signals, attempt, contract_id, attempts, inbox, subs,
                    orders, faults, buys, sum_win, sum_loss, cleared_by >>
    /\ UNCHANGED << avars, lvars, pvars, tvars >>

\* a second passes
Tick ==
    /\ now < MaxClock
    /\ now' = now + 1
    /\ UNCHANGED << sig_time, delay, wake_at >>
    /\ UNCHANGED << evars, avars, lvars, pvars >>

\* balance = 1000  # placeholder
Balance == 1000

\* amount = current_stake; if self.percent: amount = balance * current_stake / 100
Amount(stake, percent) == IF percent THEN (Balance * stake) \div 100 ELSE stake

\* api.buy calls made so far by all executors
TotalBuys == buys[1] + buys[2]

\* mutant: a profit of zero ends the loop like a win
LoopConditionNegativeOnly(r, p) == r /\ p < 0

\* while self.running and profit <= 0
LoopCondition(r, p) == r /\ p <= 0

\* the loop-top check; entering the body calls api.buy (attempt = 1)
LoopTop(e) ==
    /\ pc[e] = "loop"
    /\ IF LoopCondition(running, profit[e])
       THEN /\ TotalBuys < MaxBuys
            /\ pc' = [pc EXCEPT ![e] = "send"]
            /\ buys' = [buys EXCEPT ![e] = @ + 1]
            /\ attempt' = [attempt EXCEPT ![e] = 1]
       ELSE /\ pc' = [pc EXCEPT ![e] = "done"]
            /\ UNCHANGED << buys, attempt >>
    /\ UNCHANGED << running, thread, self_win_amount, self_loss_amount, stop_win,
                    stop_loss, signals, current_stake, win_amount, loss_amount,
                    profit, contract_id, attempts, inbox, subs, orders, faults,
                    sum_win, sum_loss, cleared_by >>
    /\ UNCHANGED << avars, lvars, pvars, tvars >>

\* api.buy: self.safe_send(req); the venue answers with a buy message, which
\* carries a contract id when the order is accepted and none when it is refused
Send(e) ==
    /\ pc[e] = "send"
    /\ orders' = [orders EXCEPT ![e] = @ + 1]
    /\ \E accepted \in BOOLEAN :
          inbox' = Append(inbox, BuyAck(IF accepted THEN ContractId(e, buys[e], orders[e] + 1)
                                                    ELSE NoContract))
    /\ pc' = [pc EXCEPT ![e] = "recv"]
    /\ UNCHANGED << running, thread, self_win_amount, self_loss_amount, stop_win,
                    stop_loss, signals, current_stake, win_amount, loss_amount,
                    profit, attempt, contract_id, attempts, subs, faults, buys,
                    sum_win, sum_loss, cleared_by >>
    /\ UNCHANGED << avars, lvars, pvars, tvars >>

\* mutant: the response is not tested for a contract id
AfterBuyUnchecked(cid) == "subscribe"

\* contract_id = result.get("buy", {}).get("contract_id"); if not contract_id:
\* break; else profit = self._wait_result(contract_id)
AfterBuy(cid) == IF cid = NoContract THEN "done" ELSE "subscribe"

\* api.buy: response = self.recv(); return it when msg_type is "buy", else go on
\* reading.  _run_signal then breaks when the response has no contract id.
Recv(e) ==
    /\ pc[e] = "recv"
    /\ inbox # << >>
    /\ inbox' = Tail(inbox)
    /\ LET msg == Head(inbox) IN
         IF msg.type = "buy"
         THEN /\ attempt' = [attempt EXCEPT ![e] = 0]
              /\ orders' = [orders EXCEPT ![e] = 0]
              /\ pc' = [pc EXCEPT ![e] = AfterBuy(msg.cid)]
              /\ contract_id' = [contract_id EXCEPT ![e] = msg.cid]
         ELSE UNCHANGED << pc, contract_id, attempt, orders >>
    /\ UNCHANGED << running, thread, self_win_amount, self_loss_amount, stop_win,
                    stop_loss, signals, current_stake, win_amount, loss_amount,
                    profit, attempts, subs, faults, buys, sum_win, sum_loss,
                    cleared_by >>
    /\ UNCHANGED << avars, lvars, pvars, tvars >>

\* api.buy: safe_send or recv raises inside the try block, and then
\* except Exception: time.sleep(delay); self.connect().  The for loop takes the
\* next attempt; when the attempts are used up buy falls off its end and
\* returns None, and result.get(...) in _run_signal raises.  A connect that
\* raises leaves buy with that exception, which _run_signal catches.
BuyExcept(e) ==
    /\ pc[e] \in {"send", "recv"}
    /\ faults < MaxFaults
    /\ faults' = faults + 1
    /\ inbox' = << >>
    /\ subs' = {}
    /\ \E connected \in BOOLEAN :
          IF ~connected
          THEN /\ pc' = [pc EXCEPT ![e] = "done"]
               /\ attempt' = [attempt EXCEPT ![e] = 0]
               /\ orders' = [orders EXCEPT ![e] = 0]
          ELSE IF attempt[e] >= Retries
          THEN /\ pc' = [pc EXCEPT ![e] = "crashed"]
               /\ attempt' = [attempt EXCEPT ![e] = 0]
               /\ orders' = [orders EXCEPT ![e] = 0]
          ELSE /\ pc' = [pc EXCEPT ![e] = "send"]
               /\ attempt' = [attempt EXCEPT ![e] = @ + 1]
               /\ UNCHANGED orders
    /\ UNCHANGED << running, thread, self_win_amount, self_loss_amount, stop_win,
                    stop_loss, signals, current_stake, win_amount, loss_amount,
                    profit, contract_id, attempts, buys, sum_win, sum_loss,
                    cleared_by >>
    /\ UNCHANGED << avars, lvars, pvars, tvars >>

-----------------------------------------------------------------------------
(* DerivBot._wait_result *)

\* self.api.subscribe_contract(contract_id); profit = 0.0; attempts = 0
Subscribe(e) ==
    /\ pc[e] = "subscribe"
    /\ subs' = subs \cup {contract_id[e]}
    /\ attempts' = [attempts EXCEPT ![e] = 0]
    /\ pc' = [pc EXCEPT ![e] = "poll"]
    /\ UNCHANGED << running, thread, self_win_amount, self_loss_amount, stop_win,
                    stop_loss, signals, current_stake, win_amount, loss_amount,
                    profit, attempt, contract_id, inbox, orders, faults, buys,
                    sum_win, sum_loss, cleared_by >>
    /\ UNCHANGED << avars, lvars, pvars, tvars >>

\* poc and poc.get("contract_id") == contract_id and poc.get("is_sold")
IsSettlement(msg, cid) == msg.type = "poc" /\ msg.cid = cid /\ msg.sold

\* mutant: the loop test lets one more attempt through
MorePollsInclusive(n) == n <= PollLimit

\* while attempts < 300, with n the attempts counted so far
MorePolls(n) == n < PollLimit

\* one poll attempt: msg = self.api.recv(); on the sold update of the own
\* contract take its profit, else sleep and count the attempt; the loop ends
\* with profit 0 when the attempts are used up
Poll(e) ==
    /\ pc[e] = "poll"
    /\ inbox # << >>
    /\ inbox' = Tail(inbox)
    /\ LET msg == Head(inbox) IN
         IF IsSettlement(msg, contract_id[e])
         THEN /\ profit' = [profit EXCEPT ![e] = msg.profit]
              /\ pc' = [pc EXCEPT ![e] = "forget"]
              /\ attempts' = [attempts EXCEPT ![e] = 0]
              /\ contract_id' = [contract_id EXCEPT ![e] = NoContract]
         ELSE IF MorePolls(attempts[e] + 1)
         THEN /\ attempts' = [attempts EXCEPT ![e] = @ + 1]
              /\ UNCHANGED << pc, profit, contract_id >>
         ELSE /\ profit' = [profit EXCEPT ![e] = 0]
              /\ pc' = [pc EXCEPT ![e] = "settle"]
              /\ attempts' = [attempts EXCEPT ![e] = 0]
              /\ contract_id' = [contract_id EXCEPT ![e] = NoContract]
    /\ UNCHANGED << running, thread, self_win_amount, self_loss_amount, stop_win,
                    stop_loss, signals, current_stake, win_amount, loss_amount,
                    attempt, subs, orders, faults, buys, sum_win, sum_loss,
                    cleared_by >>
    /\ UNCHANGED << avars, lvars, pvars, tvars >>

\* self.api.forget_all("proposal_open_contract"); break; return profit
Forget(e) ==
    /\ pc[e] = "forget"
    /\ subs' = {}
    /\ pc' = [pc EXCEPT ![e] = "settle"]
    /\ UNCHANGED << running, thread, self_win_amount, self_loss_amount, stop_win,
                    stop_loss, signals, current_stake, win_amount, loss_amount,
                    profit, attempt, contract_id, attempts, inbox, orders, faults,
                    buys, sum_win, sum_loss, cleared_by >>
    /\ UNCHANGED << avars, lvars, pvars, tvars >>

\* subscribe_contract, recv or forget_all raises in _wait_result (the
\* reconnect they made did not help): nothing in _run_signal catches it and the
\* thread ends
WaitFault(e) ==
    /\ pc[e] \in {"subscribe", "poll", "forget"}
    /\ faults < MaxFaults
    /\ faults' = faults + 1
    /\ pc' = [pc EXCEPT ![e] = "crashed"]
    /\ attempts' = [attempts EXCEPT ![e] = 0]
    /\ contract_id' = [contract_id EXCEPT ![e] = NoContract]
    /\ inbox' = << >>
    /\ subs' = {}
    /\ UNCHANGED << running, thread, self_win_amount, self_loss_amount, stop_win,
                    stop_loss, signals, current_stake, win_amount, loss_amount,
                    profit, attempt, orders, buys, sum_win, sum_loss, cleared_by >>
    /\ UNCHANGED << avars, lvars, pvars, tvars >>

\* the venue settles a contract whose status stream is live and reports it
VenueSettle(c) ==
    /\ c \in subs
    /\ \E p \in Profits : inbox' = Append(inbox, Update(c, TRUE, p))
    /\ subs' = subs \ {c}
    /\ UNCHANGED << running, thread, self_win_amount, self_loss_amount, stop_win,
                    stop_loss, signals, pc, current_stake, win_amount, loss_amount,
                    profit, attempt, contract_id, attempts, orders, faults, buys,
                    sum_win, sum_loss, cleared_by >>
    /\ UNCHANGED << avars, lvars, pvars, tvars >>

\* the venue reports a contract whose status stream is live and which is not
\* sold yet
VenueUpdate(c) ==
    /\ c \in subs
    /\ Len(inbox) < MaxInbox
    /\ inbox' = Append(inbox, Update(c, FALSE, 0))
    /\ UNCHANGED << running, thread, self_win_amount, self_loss_amount, stop_win,
                    stop_loss, signals, pc, current_stake, win_amount, loss_amount,
                    profit, attempt, contract_id, attempts, subs, orders, faults, buys,
                    sum_win, sum_loss, cleared_by >>
    /\ UNCHANGED << avars, lvars, pvars, tvars >>

-----------------------------------------------------------------------------
(* _run_signal: the outcome of one trade *)

\* after a win: the per-signal stop win, then the global one, else plain end
WinOutcome(sig, win, gstop) ==
    IF sig.stop_win > 0 /\ win >= sig.stop_win THEN "stop_signal"
    ELSE IF gstop > 0 /\ win >= gstop THEN "stop_global"
    ELSE "won"

\* mutant: the global stop loss is looked at before the per-signal one
LossOutcomeGlobalFirst(sig, loss, gstop) ==
    IF gstop > 0 /\ loss >= gstop THEN "stop_global"
    ELSE IF sig.stop_loss > 0 /\ loss >= sig.stop_loss THEN "stop_signal"
    ELSE IF ~sig.martingale THEN "no_martingale"
    ELSE "double"

\* mutant: the martingale flag of the signal is not looked at
LossOutcomeAlwaysDouble(sig, loss, gstop) ==
    IF sig.stop_loss > 0 /\ loss >= sig.stop_loss THEN "stop_signal"
    ELSE IF gstop > 0 /\ loss >= gstop THEN "stop_global"
    ELSE "double"

\* after a non-win: the per-signal stop loss, the global one, the martingale flag
LossOutcome(sig, loss, gstop) ==
    IF sig.stop_loss > 0 /\ loss >= sig.stop_loss THEN "stop_signal"
    ELSE IF gstop > 0 /\ loss >= gstop THEN "stop_global"
    ELSE IF ~sig.martingale THEN "no_martingale"
    ELSE "double"

\* current_stake = self.stake
StakeAfterWin(stake) == BaseStake

\* mutant: the stake is halved instead of doubled
StakeAfterLossHalved(stake) == stake \div 2

\* mutant: the base stake is added instead of the stake doubled
StakeAfterLossPlusBase(stake) == stake + BaseStake

\* current_stake *= 2
StakeAfterLoss(stake) == stake * 2

\* mutant: a win that meets no threshold does not leave the loop
AfterOutcomeWinGoesOn(out) == IF out \in {"double", "won"} THEN "loop" ELSE "done"

\* every outcome ends in a break, but the loss that is retried with a doubled
\* stake, which goes back to the loop test
AfterOutcome(out) == IF out = "double" THEN "loop" ELSE "done"

\* the accumulators _run_signal adds a win to
AddWin(e, p) ==
    /\ win_amount' = [win_amount EXCEPT ![e] = @ + p]
    /\ UNCHANGED << self_win_amount, loss_amount, self_loss_amount >>
    /\ UNCHANGED << avars, lvars, pvars, tvars >>

\* the accumulators _run_signal adds a loss to
AddLoss(e, p) ==
    /\ loss_amount' = [loss_amount EXCEPT ![e] = @ + (-p)]
    /\ UNCHANGED << self_loss_amount, win_amount, self_win_amount >>
    /\ UNCHANGED << avars, lvars, pvars, tvars >>

Settle(e) ==
    /\ pc[e] = "settle"
    /\ LET p == profit[e] IN
         IF p > 0
         THEN LET out == WinOutcome(signals[e], win_amount[e] + p, stop_win) IN
              /\ AddWin(e, p)
              /\ sum_win' = sum_win + p
              /\ current_stake' = [current_stake EXCEPT ![e] = StakeAfterWin(@)]
              /\ running' = IF out = "stop_global" THEN FALSE ELSE running
              /\ cleared_by' = IF out = "stop_global" THEN e ELSE cleared_by
              /\ pc' = [pc EXCEPT ![e] = AfterOutcome(out)]
              /\ UNCHANGED sum_loss
         ELSE LET out == LossOutcome(signals[e], loss_amount[e] + (-p), stop_loss) IN
              /\ AddLoss(e, p)
              /\ sum_loss' = sum_loss + (-p)
              /\ current_stake' = [current_stake EXCEPT ![e] =
                                      IF out = "double" THEN StakeAfterLoss(@) ELSE @]
              /\ running' = IF out = "stop_global" THEN FALSE ELSE running
              /\ cleared_by' = IF out = "stop_global" THEN e ELSE cleared_by
              /\ pc' = [pc EXCEPT ![e] = AfterOutcome(out)]
              /\ UNCHANGED sum_win
    /\ UNCHANGED << thread, stop_win, stop_loss, signals, profit, attempt,
                    contract_id, attempts, inbox, subs, orders, faults, buys >>
    /\ UNCHANGED << avars, lvars, pvars, tvars >>

-----------------------------------------------------------------------------
(* DerivBot.start called again, DerivBot.stop, DerivBot._start_pinger *)

engine_state == << self_win_amount, self_loss_amount, stop_win, stop_loss, signals, pc,
                   current_stake, win_amount, loss_amount, profit, attempt, contract_id,
                   attempts, inbox, subs, orders, faults, buys, sum_win, sum_loss,
                   cleared_by >>

\* mutant: start() without the test of self.running
StartAgainUnguarded ==
    /\ thread # "none"
    /\ n_start < MaxStarts
    /\ n_start' = n_start + 1
    /\ running' = TRUE
    /\ n_run' = n_run + 1
    /\ UNCHANGED << thread, engine_state, avars, auth, pinger, last_ping, pings, stopper >>
    /\ UNCHANGED << pvars, tvars >>

\* start() on a bot that was started before: if self.running: return; else
\* set the flag and launch another _run thread, which becomes self.thread.
\* The steps of that second thread are not followed.
StartAgain ==
    /\ thread # "none"
    /\ n_start < MaxStarts
    /\ n_start' = n_start + 1
    /\ IF running
       THEN UNCHANGED << running, n_run >>
       ELSE /\ running' = TRUE
            /\ n_run' = n_run + 1
    /\ UNCHANGED << thread, engine_state, avars, auth, pinger, last_ping, pings, stopper >>
    /\ UNCHANGED << pvars, tvars >>

\* stop(): self.running = False; if self.thread: self.thread.join()
Stop ==
    /\ stopper = "none"
    /\ running' = FALSE
    /\ stopper' = IF thread = "none" THEN "returned" ELSE "join"
    /\ UNCHANGED << thread, engine_state, avars, auth, pinger, last_ping, pings, n_start,
                    n_run >>
    /\ UNCHANGED << pvars, tvars >>

\* stop(): self.thread.join() returns when the _run thread it waits for has
\* ended, normally or with an exception
StopJoin ==
    /\ stopper = "join"
    /\ n_run = 1
    /\ thread \in {"done", "aborted"}
    /\ stopper' = "returned"
    /\ UNCHANGED << running, thread, engine_state, avars, auth, pinger, last_ping, pings,
                    n_start, n_run >>
    /\ UNCHANGED << pvars, tvars >>

\* the venue's answer to {"ping": 1}
Pong == [type |-> "ping", cid |-> NoContract, sold |-> FALSE, profit |-> 0]

\* ping_loop: while self.running, at the start and when time.sleep(interval)
\* has ended
PingCheck ==
    /\ pinger = "check"
    /\ IF running
       THEN /\ pings < MaxPings
            /\ pinger' = "send"
            /\ pings' = pings + 1
       ELSE /\ pinger' = "done"
            /\ UNCHANGED pings
    /\ UNCHANGED << running, thread, engine_state, avars, auth, last_ping, stopper,
                    n_start, n_run >>
    /\ UNCHANGED << pvars, tvars >>

\* mutant: an exception of the send ends the loop
AfterPingStopOnFailure(result) == IF result = "failed" THEN "done" ELSE "check"

\* ping_loop: try: safe_send(ping) except Exception: print; then
\* time.sleep(interval) and the loop test again
AfterPing(result) == "check"

\* ping_loop: self.api.safe_send({"ping": 1}).  On a live socket the message
\* goes out and the venue answers.  When ws.send raises (a transport failure,
\* or the socket was closed by close()), safe_send reconnects and sends again
\* on the new connection; an exception of the reconnect or of the second send
\* is caught by ping_loop.
PingSend ==
    /\ pinger = "send"
    /\ \/ /\ ws = "sock"
          /\ inbox' = Append(inbox, Pong)
          /\ last_ping' = "sent"
          /\ pinger' = AfterPing("sent")
          /\ UNCHANGED << ws, subs, faults >>
       \/ /\ ws = "closed" \/ faults < MaxFaults
          /\ faults' = IF ws = "closed" THEN faults ELSE faults + 1
          /\ ws' = "sock"
          /\ subs' = {}
          /\ \E resent \in BOOLEAN :
                /\ inbox' = IF resent THEN << Pong >> ELSE << >>
                /\ last_ping' = IF resent THEN "sent" ELSE "failed"
                /\ pinger' = AfterPing(IF resent THEN "sent" ELSE "failed")
    /\ UNCHANGED << running, thread, self_win_amount, self_loss_amount, stop_win,
                    stop_loss, signals, pc, current_stake, win_amount, loss_amount,
                    profit, attempt, contract_id, attempts, orders, buys, sum_win,
                    sum_loss, cleared_by >>
    /\ UNCHANGED << callvars, auth, pings, stopper, n_start, n_run >>
    /\ UNCHANGED << pvars, tvars >>

-----------------------------------------------------------------------------
(* DerivAPI: safe_send, connect, recv and buy as one caller runs them, on a *)
(* transport whose send, recv and connect may raise                         *)

MaxApiFaults == 4    \* transport failures injected in one run
MaxNoise == 1        \* messages other than a buy response the venue sends

Frame(fn, at, msg) == [fn |-> fn, pc |-> at, msg |-> msg, attempt |-> 1]
Depth == Len(stack)
Top == stack[Depth]
At(fn, at) == Depth > 0 /\ Top.fn = fn /\ Top.pc = at
Goto(at) == [stack EXCEPT ![Depth].pc = at]
Popped == SubSeq(stack, 1, Depth - 1)
CanFail == api_faults < MaxApiFaults

\* the caller calls one method of the client
ApiCall(o) ==
    /\ stack = << >>
    /\ op' = o
    /\ was_open' = (ws # "none")
    /\ stack' = << CASE o = "send" -> Frame("safe_send", "start", "payload")
                     [] o = "recv" -> Frame("recv", "start", "")
                     [] o = "buy" -> Frame("buy", "send", "")
                     [] o = "connect" -> Frame("connect", "open", "") >>
    /\ ret' = "none"
    /\ retval' = "none"
    /\ n_reconnect' = 0
    /\ n_write' = 0
    /\ n_read' = 0
    /\ UNCHANGED << ws, api_faults, noise >>
    /\ UNCHANGED << evars, lvars, pvars, tvars >>

\* the method on top of the stack returns v to its caller
Return(v) ==
    /\ stack' = Popped
    /\ ret' = "ok"
    /\ retval' = v

\* the method on top of the stack raises to its caller
Raise ==
    /\ stack' = Popped
    /\ ret' = "exc"
    /\ retval' = "none"

\* safe_send: if self.ws is None: self.connect()
SafeSendStart ==
    /\ At("safe_send", "start")
    /\ stack' = IF ws = "none"
                THEN Append(Goto("connecting"), Frame("connect", "open", ""))
                ELSE Goto("try")
    /\ UNCHANGED << ws, ret, retval, op, was_open, api_faults, noise, n_reconnect, n_write, n_read >>
    /\ UNCHANGED << evars, lvars, pvars, tvars >>

\* safe_send: the connect() it called (before the try, or in the except
\* handler) is over; an exception of it leaves safe_send
SafeSendConnected ==
    /\ \/ At("safe_send", "connecting")
       \/ At("safe_send", "reconnecting")
    /\ ret # "none"
    /\ IF ret = "ok"
       THEN /\ stack' = Goto(IF Top.pc = "connecting" THEN "try" ELSE "retry")
            /\ ret' = "none"
            /\ retval' = "none"
       ELSE Raise
    /\ UNCHANGED << ws, op, was_open, api_faults, noise, n_reconnect, n_write, n_read >>
    /\ UNCHANGED << evars, lvars, pvars, tvars >>

\* what safe_send does when the ws.send in its try block raises a transport error
SafeSendOnFailure == Append(Goto("reconnecting"), Frame("connect", "open", ""))

\* safe_send: try: self.ws.send(...) except (closed, SSL, reset): self.connect()
SafeSendTry ==
    /\ At("safe_send", "try")
    /\ n_write' = IF Top.msg = "payload" THEN n_write + 1 ELSE n_write
    /\ \/ /\ Return("sent")
          /\ UNCHANGED << api_faults, n_reconnect >>
       \/ /\ CanFail
          /\ api_faults' = api_faults + 1
          /\ n_reconnect' = n_reconnect + 1
          /\ stack' = SafeSendOnFailure
          /\ UNCHANGED << ret, retval >>
    /\ UNCHANGED << ws, op, was_open, noise, n_read >>
    /\ UNCHANGED << evars, lvars, pvars, tvars >>

\* safe_send: the second self.ws.send(...), in the except handler
SafeSendRetry ==
    /\ At("safe_send", "retry")
    /\ n_write' = IF Top.msg = "payload" THEN n_write + 1 ELSE n_write
    /\ \/ /\ Return("sent")
          /\ UNCHANGED api_faults
       \/ /\ CanFail
          /\ api_faults' = api_faults + 1
          /\ Raise
    /\ UNCHANGED << ws, op, was_open, noise, n_reconnect, n_read >>
    /\ UNCHANGED << evars, lvars, pvars, tvars >>

\* connect: self.ws = websocket.WebSocket(); self.ws.connect(self.url);
\* self.safe_send({"authorize": self.token})
ConnectOpen ==
    /\ At("connect", "open")
    /\ ws' = "sock"
    /\ \/ /\ stack' = Append(Goto("authorizing"), Frame("safe_send", "start", "authorize"))
          /\ UNCHANGED << api_faults, ret, retval >>
       \/ /\ CanFail
          /\ api_faults' = api_faults + 1
          /\ Raise
    /\ UNCHANGED << op, was_open, noise, n_reconnect, n_write, n_read >>
    /\ UNCHANGED << evars, lvars, pvars, tvars >>

\* connect: the safe_send of the authorize message is over
ConnectAuthorized ==
    /\ At("connect", "authorizing")
    /\ ret # "none"
    /\ IF ret = "ok"
       THEN /\ stack' = Goto("read")
            /\ ret' = "none"
            /\ retval' = "none"
       ELSE Raise
    /\ UNCHANGED << ws, op, was_open, api_faults, noise, n_reconnect, n_write, n_read >>
    /\ UNCHANGED << evars, lvars, pvars, tvars >>

\* connect: resp = json.loads(self.ws.recv()); if resp.get("error"): raise
ConnectRead ==
    /\ At("connect", "read")
    /\ \/ /\ Return("none")
          /\ UNCHANGED api_faults
       \/ /\ Raise
          /\ UNCHANGED api_faults
       \/ /\ CanFail
          /\ api_faults' = api_faults + 1
          /\ Raise
    /\ UNCHANGED << ws, op, was_open, noise, n_reconnect, n_write, n_read >>
    /\ UNCHANGED << evars, lvars, pvars, tvars >>

\* recv: if self.ws is None: self.connect()
RecvStart ==
    /\ At("recv", "start")
    /\ stack' = IF ws = "none"
                THEN Append(Goto("connecting"), Frame("connect", "open", ""))
                ELSE Goto("try")
    /\ UNCHANGED << ws, ret, retval, op, was_open, api_faults, noise, n_reconnect, n_write, n_read >>
    /\ UNCHANGED << evars, lvars, pvars, tvars >>

\* recv: the connect() it called is over; an exception of it leaves recv
RecvConnected ==
    /\ \/ At("recv", "connecting")
       \/ At("recv", "reconnecting")
    /\ ret # "none"
    /\ IF ret = "ok"
       THEN /\ stack' = Goto(IF Top.pc = "connecting" THEN "try" ELSE "retry")
            /\ ret' = "none"
            /\ retval' = "none"
       ELSE Raise
    /\ UNCHANGED << ws, op, was_open, api_faults, noise, n_reconnect, n_write, n_read >>
    /\ UNCHANGED << evars, lvars, pvars, tvars >>

\* the message a successful self.ws.recv() yields: a buy response or another one
Receives(v) ==
    /\ v \in {"buy", "other"}
    /\ v = "other" => noise < MaxNoise
    /\ noise' = IF v = "other" THEN noise + 1 ELSE noise
    /\ Return(v)

\* recv: try: return json.loads(self.ws.recv()) except (closed, SSL, reset):
\* self.connect()
RecvTry ==
    /\ At("recv", "try")
    /\ n_read' = n_read + 1
    /\ \/ /\ \E v \in {"buy", "other"} : Receives(v)
          /\ UNCHANGED << api_faults, n_reconnect >>
       \/ /\ CanFail
          /\ api_faults' = api_faults + 1
          /\ n_reconnect' = n_reconnect + 1
          /\ stack' = Append(Goto("reconnecting"), Frame("connect", "open", ""))
          /\ UNCHANGED << ret, retval, noise >>
    /\ UNCHANGED << ws, op, was_open, n_write >>
    /\ UNCHANGED << evars, lvars, pvars, tvars >>

\* recv: the second self.ws.recv(), in the except handler; except Exception
\* as e2: raise e2
RecvRetry ==
    /\ At("recv", "retry")
    /\ n_read' = n_read + 1
    /\ \/ /\ \E v \in {"buy", "other"} : Receives(v)
          /\ UNCHANGED api_faults
       \/ /\ CanFail
          /\ api_faults' = api_faults + 1
          /\ Raise
          /\ UNCHANGED noise
    /\ UNCHANGED << ws, op, was_open, n_reconnect, n_write >>
    /\ UNCHANGED << evars, lvars, pvars, tvars >>

\* buy: for attempt in range(1, retries + 1): try: self.safe_send(req)
ApiBuySend ==
    /\ At("buy", "send")
    /\ stack' = Append(Goto("sending"), Frame("safe_send", "start", "payload"))
    /\ UNCHANGED << ws, ret, retval, op, was_open, api_faults, noise, n_reconnect, n_write, n_read >>
    /\ UNCHANGED << evars, lvars, pvars, tvars >>

\* buy: while True: response = self.recv()
ApiBuyRecv ==
    /\ At("buy", "recv")
    /\ stack' = Append(Goto("receiving"), Frame("recv", "start", ""))
    /\ UNCHANGED << ws, ret, retval, op, was_open, api_faults, noise, n_reconnect, n_write, n_read >>
    /\ UNCHANGED << evars, lvars, pvars, tvars >>

\* buy: a call made in the try block is over: safe_send is followed by recv, a
\* buy response is returned, another message is ignored, and an exception goes
\* to the except handler
ApiBuyStep ==
    /\ \/ At("buy", "sending")
       \/ At("buy", "receiving")
    /\ ret # "none"
    /\ IF ret = "exc"
       THEN /\ stack' = Goto("except")
            /\ ret' = "none"
            /\ retval' = "none"
       ELSE IF Top.pc = "receiving" /\ retval = "buy"
       THEN Return("buy")
       ELSE /\ stack' = Goto("recv")
            /\ ret' = "none"
            /\ retval' = "none"
    /\ UNCHANGED << ws, op, was_open, api_faults, noise, n_reconnect, n_write, n_read >>
    /\ UNCHANGED << evars, lvars, pvars, tvars >>

\* buy: except Exception as e: time.sleep(delay); self.connect()
ApiBuyExcept ==
    /\ At("buy", "except")
    /\ stack' = Append(Goto("reconnecting"), Frame("connect", "open", ""))
    /\ UNCHANGED << ws, ret, retval, op, was_open, api_faults, noise, n_reconnect, n_write, n_read >>
    /\ UNCHANGED << evars, lvars, pvars, tvars >>

\* how buy ends when its for loop has used up the attempts
BuyExhausted == Return("None")

\* buy: the connect() of the except handler is over: an exception of it leaves
\* buy, else the for loop takes the next attempt or ends
ApiBuyReconnected ==
    /\ At("buy", "reconnecting")
    /\ ret # "none"
    /\ IF ret = "exc"
       THEN Raise
       ELSE IF Top.attempt >= Retries
       THEN BuyExhausted
       ELSE /\ stack' = [stack EXCEPT ![Depth].pc = "send", ![Depth].attempt = @ + 1]
            /\ ret' = "none"
            /\ retval' = "none"
    /\ UNCHANGED << ws, op, was_open, api_faults, noise, n_reconnect, n_write, n_read >>
    /\ UNCHANGED << evars, lvars, pvars, tvars >>

-----------------------------------------------------------------------------
(* parse_signal, BotUI.load_signals, BotUI.start_bot, DerivBot.add_signal.  *)
(* A line is a sequence of tokens: the separator ';', a blank, a word (its  *)
(* characters), or the digits of a date d/m/y or of a time h:m.             *)

Semi == [k |-> "semi", v |-> << >>]
Blank == [k |-> "blank", v |-> << >>]
Word(chars) == [k |-> "word", v |-> chars]
DateText(d, m, y) == [k |-> "date", v |-> << d, m, y >>]
TimeText(h, mi) == [k |-> "time", v |-> << h, mi >>]

\* line.split(';'): the texts between the separators, one more than there are
\* separators
RECURSIVE Split(_)
Split(line) ==
    IF \A i \in 1 .. Len(line) : line[i] # Semi
    THEN << line >>
    ELSE LET i == CHOOSE j \in 1 .. Len(line) :
                      line[j] = Semi /\ \A h \in 1 .. j - 1 : line[h] # Semi
         IN << SubSeq(line, 1, i - 1) >> \o Split(SubSeq(line, i + 1, Len(line)))

\* p.strip(): the text without its leading and trailing blanks
RECURSIVE Strip(_)
Strip(text) ==
    IF text = << >> THEN text
    ELSE IF Head(text) = Blank THEN Strip(Tail(text))
    ELSE IF text[Len(text)] = Blank THEN Strip(SubSeq(text, 1, Len(text) - 1))
    ELSE text

LowerCase == << "a", "b", "c", "d", "e", "f", "g", "h", "i", "j", "k", "l", "m",
               "n", "o", "p", "q", "r", "s", "t", "u", "v", "w", "x", "y", "z" >>
UpperCase == << "A", "B", "C", "D", "E", "F", "G", "H", "I", "J", "K", "L", "M",
               "N", "O", "P", "Q", "R", "S", "T", "U", "V", "W", "X", "Y", "Z" >>

UpperChar(c) ==
    IF \E i \in 1 .. Len(LowerCase) : LowerCase[i] = c
    THEN UpperCase[CHOOSE i \in 1 .. Len(LowerCase) : LowerCase[i] = c]
    ELSE c

\* str.upper(): the letters of the words in upper case, all else as it is
Upper(text) ==
    [i \in 1 .. Len(text) |->
        IF text[i].k = "word"
        THEN Word([j \in 1 .. Len(text[i].v) |-> UpperChar(text[i].v[j])])
        ELSE text[i]]

\* the venue's name of a currency pair: "frx" and the pair
Frx(pair) == << Word(<< "f", "r", "x" >> \o pair) >>

PairKeys == { << "E", "U", "R", "U", "S", "D" >>, << "G", "B", "P", "U", "S", "D" >>,
              << "G", "B", "P", "J", "P", "Y" >>, << "A", "U", "D", "J", "P", "Y" >>,
              << "E", "U", "R", "G", "B", "P" >>, << "E", "U", "R", "J", "P", "Y" >> }

\* PAIR_MAP: from the text of a pair to the text of the venue's symbol
PAIR_MAP == [key \in {<< Word(pair) >> : pair \in PairKeys} |-> Frx(key[1].v)]

\* mutant: the table is looked up with the field as written
ResolveSymbolAsWritten(field) ==
    IF field \in DOMAIN PAIR_MAP THEN PAIR_MAP[field] ELSE Upper(field)

\* PAIR_MAP.get(parts[2].upper(), parts[2].upper())
ResolveSymbol(field) ==
    IF Upper(field) \in DOMAIN PAIR_MAP THEN PAIR_MAP[Upper(field)] ELSE Upper(field)

IsLeap(y) == (y % 4 = 0 /\ y % 100 # 0) \/ y % 400 = 0

DaysIn(m, y) ==
    IF m = 2 THEN (IF IsLeap(y) THEN 29 ELSE 28)
    ELSE IF m \in {4, 6, 9, 11} THEN 30
    ELSE 31

\* datetime.strptime(text, "%d/%m/%Y %H:%M") finds a date, blanks and a time,
\* with every number in its range; else it raises ValueError
Matches(text) ==
    /\ Len(text) = 3
    /\ text[1].k = "date"
    /\ text[2] = Blank
    /\ text[3].k = "time"
    /\ text[1].v[2] \in 1 .. 12
    /\ text[1].v[1] \in 1 .. DaysIn(text[1].v[2], text[1].v[3])
    /\ text[3].v[1] \in 0 .. 23
    /\ text[3].v[2] \in 0 .. 59

\* the datetime strptime returns: year, month, day, hour, minute
Strptime(text) ==
    << text[1].v[3], text[1].v[2], text[1].v[1], text[3].v[1], text[3].v[2] >>

NoSignal == [time |-> << >>, symbol |-> << >>, direction |-> << >>, timeframe |-> << >>,
             stop_win |-> 0, stop_loss |-> 0, martingale |-> FALSE]

\* mutant: only a line with too few fields is refused
FieldCountOkAtLeast(parts) == Len(parts) >= 5

\* if len(parts) != 5: raise ValueError
FieldCountOk(parts) == Len(parts) = 5

\* parse_signal(line): ok with the Signal, or not ok when it raises ValueError
parse_signal(line) ==
    LET split == Split(line)
        parts == [i \in 1 .. Len(split) |-> Strip(split[i])]
    IN  IF ~FieldCountOk(parts) THEN [ok |-> FALSE, sig |-> NoSignal]
        ELSE LET stamp == parts[1] \o << Blank >> \o parts[2] IN
             IF ~Matches(stamp) THEN [ok |-> FALSE, sig |-> NoSignal]
             ELSE [ok |-> TRUE,
                   sig |-> [time |-> Strptime(stamp),
                            symbol |-> ResolveSymbol(parts[3]),
                            direction |-> Upper(parts[4]),
                            timeframe |-> Upper(parts[5]),
                            stop_win |-> 0, stop_loss |-> 0, martingale |-> FALSE]]

\* load_signals: the loop over the lines.  A blank line is skipped; a parsed
\* Signal gets the thresholds and the martingale flag of the window and becomes
\* a row; an exception shows an error and ends the load, with the rows made so
\* far kept.
RECURSIVE LoadLines(_, _, _, _)
LoadLines(lines, settings, rows, sources) ==
    IF lines = << >> THEN [rows |-> rows, sources |-> sources, error |-> "none"]
    ELSE IF Strip(Head(lines)) = << >>
    THEN LoadLines(Tail(lines), settings, rows, sources)
    ELSE LET parsed == parse_signal(Head(lines)) IN
         IF ~parsed.ok THEN [rows |-> rows, sources |-> sources, error |-> "shown"]
         ELSE LoadLines(Tail(lines), settings,
                        Append(rows, [parsed.sig EXCEPT !.stop_win = settings.stop_win,
                                                        !.stop_loss = settings.stop_loss,
                                                        !.martingale = settings.martingale]),
                        Append(sources, Head(lines)))

\* a datetime is earlier than another
RECURSIVE Earlier(_, _)
Earlier(a, b) ==
    IF a = << >> \/ b = << >> THEN FALSE
    ELSE IF Head(a) # Head(b) THEN Head(a) < Head(b)
    ELSE Earlier(Tail(a), Tail(b))

\* DerivBot.add_signal: append, then the stable sort by time
add_signal(list, sig) ==
    LET n == Cardinality({i \in 1 .. Len(list) : ~Earlier(sig.time, list[i].time)})
    IN  SubSeq(list, 1, n) \o << sig >> \o SubSeq(list, n + 1, Len(list))

RECURSIVE AddSignals(_, _)
AddSignals(list, rows) ==
    IF rows = << >> THEN list
    ELSE AddSignals(add_signal(list, Head(rows)), Tail(rows))

\* BotUI.load_signals
LoadSignals ==
    /\ LET out == LoadLines(signals_text, ui_vars, << >>, << >>) IN
         /\ row_signals' = out.rows
         /\ row_lines' = out.sources
         /\ load_error' = out.error
    /\ loaded' = TRUE
    /\ UNCHANGED << signals_text, ui_vars, bot_signals >>
    /\ UNCHANGED << evars, avars, lvars, tvars >>

\* BotUI.start_bot: without rows an error is shown; else a new DerivBot gets
\* every row by add_signal
StartBot ==
    /\ bot_signals' = IF row_signals = << >> THEN bot_signals
                      ELSE AddSignals(<< >>, row_signals)
    /\ UNCHANGED << signals_text, ui_vars, row_signals, row_lines, load_error, loaded >>
    /\ UNCHANGED << evars, avars, lvars, tvars >>

\* the texts of the fields a user may write
DateFields == { << DateText(21, 5, 2024) >>, << Blank, DateText(20, 5, 2024) >> }
TimeFields == { << TimeText(14, 30) >> }
SymbolFields == { << Word(<< "e", "u", "r", "u", "s", "d" >>) >>,
                  << Word(<< "X", "A", "U", "U", "S", "D" >>) >>,
                  << Blank, Word(<< "G", "b", "p", "J", "p", "y" >>), Blank >>,
                  << Word(<< "f", "r", "x", "e", "u", "r", "u", "s", "d" >>) >> }
DirectionField == << Word(<< "p", "u", "t" >>) >>
TimeframeField == << Word(<< "m", "1", "5" >>) >>
NoSuchDate == << DateText(31, 2, 2024) >>
NoSuchTime == << TimeText(25, 0) >>
Gold == << Word(<< "X", "A", "U", "U", "S", "D" >>) >>

\* ';'.join(fields)
RECURSIVE Join(_)
Join(fields) ==
    IF Len(fields) = 1 THEN fields[1]
    ELSE fields[1] \o << Semi >> \o Join(Tail(fields))

FiveFields == {<< d, t, sy, DirectionField, TimeframeField >> :
                 d \in DateFields, t \in TimeFields, sy \in SymbolFields}

\* lines of five fields with a date and a time that exist, with a date or a
\* time that does not, lines with the timeframe missing or with a field too
\* many, and a blank line
Lines ==
    {Join(f) : f \in FiveFields}
      \cup { Join(<< NoSuchDate, << TimeText(14, 30) >>, Gold, DirectionField, TimeframeField >>),
             Join(<< << DateText(21, 5, 2024) >>, NoSuchTime, Gold, DirectionField, TimeframeField >>),
             Join(<< << DateText(21, 5, 2024) >>, << TimeText(14, 30) >>, Gold, DirectionField >>),
             Join(<< << DateText(21, 5, 2024) >>, << TimeText(14, 30) >>, Gold, DirectionField,
                     TimeframeField, TimeframeField >>),
             << Blank >> }

\* the settings of the window: nothing set, or both thresholds and martingale
WindowSettings == {st \in SignalSettings : st.martingale = (st.stop_win > 0)}

Texts == UNION {[1 .. n -> Lines] : n \in 0 .. MaxLines}

\* the window with a schedule text written into it
InitParse ==
    /\ InitEngine
    /\ stop_win = 0
    /\ \A e \in Sigs : signals[e].stop_win = 0 /\ ~signals[e].martingale
    /\ InitApi
    /\ InitLifecycle
    /\ InitTime
    /\ signals_text \in Texts
    /\ ui_vars \in WindowSettings
    /\ row_signals = << >>
    /\ row_lines = << >>
    /\ load_error = "none"
    /\ loaded = FALSE
    /\ bot_signals = << >>

NextParse ==
    \/ LoadSignals
    \/ StartBot

SpecParse == InitParse /\ [][NextParse]_vars

-----------------------------------------------------------------------------
\* the engine: DerivBot with its executors on one connection
Init == InitEngine /\ InitApi /\ InitLifecycle /\ InitUI /\ InitTime

Next ==
    \/ Start
    \/ RunConnect
    \/ RunFinish
    \/ \E e \in Sigs : Spawn(e)
    \/ \E e \in Sigs : Wake(e)
    \/ \E e \in Sigs : LoopTop(e)
    \/ \E e \in Sigs : Send(e)
    \/ \E e \in Sigs : Recv(e)
    \/ \E e \in Sigs : BuyExcept(e)
    \/ \E e \in Sigs : Subscribe(e)
    \/ \E e \in Sigs : Poll(e)
    \/ \E e \in Sigs : Forget(e)
    \/ \E e \in Sigs : WaitFault(e)
    \/ \E e \in Sigs : Settle(e)
    \/ \E c \in subs : VenueSettle(c)

Spec == Init /\ [][Next]_vars

\* the venue client alone: one caller, whose bot is never started
InitClient ==
    /\ InitEngine
    /\ stop_win = 0
    /\ \A e \in Sigs : signals[e].stop_win = 0 /\ ~signals[e].martingale
    /\ InitApi
    /\ InitLifecycle
    /\ InitTime
    /\ InitUI

NextClient ==
    \/ \E o \in {"send", "recv", "buy", "connect"} : ApiCall(o)
    \/ SafeSendStart
    \/ SafeSendConnected
    \/ SafeSendTry
    \/ SafeSendRetry
    \/ ConnectOpen
    \/ ConnectAuthorized
    \/ ConnectRead
    \/ RecvStart
    \/ RecvConnected
    \/ RecvTry
    \/ RecvRetry
    \/ ApiBuySend
    \/ ApiBuyRecv
    \/ ApiBuyStep
    \/ ApiBuyExcept
    \/ ApiBuyReconnected

SpecClient == InitClient /\ [][NextClient]_vars

\* the settlement wait: the first executor has its buy response and enters
\* _wait_result, the order of the second one was refused; the venue streams
\* interim updates of the contract.  No threshold is set; the signal of the
\* first executor is with or without martingale.  The wait is followed up to
\* the outcome _run_signal makes of its result and the loop test after it;
\* stop() may be called at any moment.
InitWait ==
    /\ running = TRUE
    /\ thread = "join"
    /\ self_win_amount = 0
    /\ self_loss_amount = 0
    /\ stop_win = 0
    /\ stop_loss = 0
    /\ signals \in [Sigs -> SignalSettings]
    /\ signals[1].stop_win = 0
    /\ signals[2] = [stop_win |-> 0, stop_loss |-> 0, martingale |-> FALSE]
    /\ pc = [e \in Sigs |-> IF e = 1 THEN "subscribe" ELSE "done"]
    /\ current_stake = [e \in Sigs |-> BaseStake]
    /\ win_amount = [e \in Sigs |-> 0]
    /\ loss_amount = [e \in Sigs |-> 0]
    /\ profit = [e \in Sigs |-> -1]
    /\ attempt = [e \in Sigs |-> 0]
    /\ contract_id = [e \in Sigs |-> IF e = 1 THEN ContractId(1, 1, 1) ELSE NoContract]
    /\ attempts = [e \in Sigs |-> 0]
    /\ inbox = << >>
    /\ subs = {}
    /\ orders = [e \in Sigs |-> 0]
    /\ faults = 0
    /\ buys = [e \in Sigs |-> 1]
    /\ sum_win = 0
    /\ sum_loss = 0
    /\ cleared_by = 0
    /\ ws = "sock"
    /\ stack = << >>
    /\ ret = "none"
    /\ retval = "none"
    /\ op = "none"
    /\ was_open = FALSE
    /\ api_faults = 0
    /\ noise = 0
    /\ n_reconnect = 0
    /\ n_write = 0
    /\ n_read = 0
    /\ auth = "authorized"
    /\ pinger = "check"
    /\ last_ping = "none"
    /\ pings = 0
    /\ stopper = "none"
    /\ n_start = 1
    /\ n_run = 1
    /\ InitUI
    /\ InitTime

NextWait ==
    \/ RunFinish
    \/ Stop
    \/ StopJoin
    \/ \E e \in Sigs : LoopTop(e)
    \/ \E e \in Sigs : Subscribe(e)
    \/ \E e \in Sigs : Poll(e)
    \/ \E e \in Sigs : Forget(e)
    \/ \E e \in Sigs : WaitFault(e)
    \/ \E e \in Sigs : Settle(e)
    \/ \E c \in subs : VenueSettle(c)
    \/ \E c \in subs : VenueUpdate(c)

SpecWait == InitWait /\ [][NextWait]_vars

\* the life of one bot: start(), start() again, stop() and the pinger thread
\* next to the supervisor and its executors; global thresholds set, no
\* per-signal ones.  Transport failures hit the pinger and the settlement
\* wait; the retries of api.buy are followed in Spec.
InitLife ==
    /\ Init
    /\ stop_win = 2
    /\ \A e \in Sigs : signals[e].stop_win = 0 /\ ~signals[e].martingale

NextLife ==
    \/ Start
    \/ StartAgain
    \/ Stop
    \/ StopJoin
    \/ PingCheck
    \/ PingSend
    \/ RunConnect
    \/ RunFinish
    \/ \E e \in Sigs : Spawn(e)
    \/ \E e \in Sigs : Wake(e)
    \/ \E e \in Sigs : LoopTop(e)
    \/ \E e \in Sigs : Send(e)
    \/ \E e \in Sigs : Recv(e)
    \/ \E e \in Sigs : Subscribe(e)
    \/ \E e \in Sigs : Poll(e)
    \/ \E e \in Sigs : Forget(e)
    \/ \E e \in Sigs : WaitFault(e)
    \/ \E e \in Sigs : Settle(e)
    \/ \E c \in subs : VenueSettle(c)

SpecLife == InitLife /\ [][NextLife]_vars

\* termination: one start of a bot with two signals without thresholds and
\* martingale on a transport that does not fail, and stop() called at any
\* moment or never.  Threads that can take a step take one in the end, the
\* venue settles every contract whose stream is live, and join returns once
\* the thread it waits for has ended.
InitLive ==
    /\ Init
    /\ stop_win = 0
    /\ \A e \in Sigs : signals[e].stop_win = 0 /\ ~signals[e].martingale

\* the steps of the _run_signal thread of signal e
ExecutorStep(e) ==
    \/ Wake(e)
    \/ LoopTop(e)
    \/ Send(e)
    \/ Recv(e)
    \/ Subscribe(e)
    \/ Poll(e)
    \/ Forget(e)
    \/ Settle(e)

\* the steps of the _run thread
SupervisorStep ==
    \/ RunConnect
    \/ \E e \in Sigs : Spawn(e)
    \/ RunFinish

\* the venue settles a contract
VenueStep == \E c \in subs : VenueSettle(c)

NextLive ==
    \/ Start
    \/ Stop
    \/ StopJoin
    \/ RunConnect
    \/ RunFinish
    \/ \E e \in Sigs : Spawn(e)
    \/ \E e \in Sigs : Wake(e)
    \/ \E e \in Sigs : LoopTop(e)
    \/ \E e \in Sigs : Send(e)
    \/ \E e \in Sigs : Recv(e)
    \/ \E e \in Sigs : Subscribe(e)
    \/ \E e \in Sigs : Poll(e)
    \/ \E e \in Sigs : Forget(e)
    \/ \E e \in Sigs : Settle(e)
    \/ \E c \in subs : VenueSettle(c)

Fairness ==
    /\ \A e \in Sigs : WF_vars(ExecutorStep(e))
    /\ WF_vars(SupervisorStep)
    /\ WF_vars(VenueStep)
    /\ WF_vars(StopJoin)

SpecLive == InitLive /\ [][NextLive]_vars /\ Fairness

\* the delays the window may configure, in seconds
Delays == {0, 1}

\* the schedule against the clock: two signals without thresholds and
\* martingale, listed by time as add_signal keeps them, with times in the past
\* of the start or after it
InitSchedule ==
    /\ InitEngine
    /\ stop_win = 0
    /\ \A e \in Sigs : signals[e].stop_win = 0 /\ ~signals[e].martingale
    /\ InitApi
    /\ InitLifecycle
    /\ InitUI
    /\ now = 0
    /\ sig_time \in [Sigs -> 0 .. MaxClock]
    /\ sig_time[1] <= sig_time[2]
    /\ delay \in Delays
    /\ wake_at = [e \in Sigs |-> 0]

NextSchedule ==
    \/ Tick
    \/ Start
    \/ RunConnect
    \/ RunFinish
    \/ \E e \in Sigs : Spawn(e)
    \/ \E e \in Sigs : Wake(e)
    \/ \E e \in Sigs : SleepEnd(e)
    \/ \E e \in Sigs : LoopTop(e)
    \/ \E e \in Sigs : Send(e)
    \/ \E e \in Sigs : Recv(e)
    \/ \E e \in Sigs : Subscribe(e)
    \/ \E e \in Sigs : Poll(e)
    \/ \E e \in Sigs : Forget(e)
    \/ \E e \in Sigs : Settle(e)
    \/ \E c \in subs : VenueSettle(c)

SpecSchedule == InitSchedule /\ [][NextSchedule]_vars

-----------------------------------------------------------------------------
(* Properties of the engine *)

\* executor e takes its Settle step
Settles(e) == pc[e] = "settle" /\ pc'[e] # "settle"

\* executor e writes its buy request to the connection
SendsBuy(e) == pc[e] = "send" /\ pc'[e] = "recv"

\* after this step the per-signal threshold of e is set and met by what it settled
SignalStopMet(e) ==
    \/ profit[e] > 0 /\ signals[e].stop_win > 0 /\ win_amount'[e] >= signals[e].stop_win
    \/ profit[e] <= 0 /\ signals[e].stop_loss > 0 /\ loss_amount'[e] >= signals[e].stop_loss

\* after this step the global threshold is set and met by what all executors settled
GlobalStopMet(e) ==
    \/ profit[e] > 0 /\ stop_win > 0 /\ sum_win' >= stop_win
    \/ profit[e] <= 0 /\ stop_loss > 0 /\ sum_loss' >= stop_loss

\* C1: once an executor has cleared the running flag on a global stop, no other
\* executor sends a buy request.
C1_NoBuyAfterGlobalStop ==
    [][cleared_by # 0 => \A e \in Sigs \ {cleared_by} : ~SendsBuy(e)]_vars

\* C2: an executor whose own per-signal threshold is set and met stops itself
\* only: the running flag keeps its value, also when the global threshold is
\* met by the same outcome, and no other executor moves.
C2_SignalStopHaltsOnlyThatSignal ==
    [][\A e \in Sigs : (Settles(e) /\ SignalStopMet(e)) =>
          /\ running' = running
          /\ pc'[e] = "done"
          /\ \A d \in Sigs \ {e} : pc'[d] = pc[d]]_vars

\* C2 witness: an executor stopped on its own stop loss, the global stop loss is
\* met by the same amount, the flag is still set and the other executor is at work
C2_Witness ==
    \E e \in Sigs :
        /\ pc[e] = "done"
        /\ signals[e].stop_loss > 0 /\ loss_amount[e] >= signals[e].stop_loss
        /\ stop_loss > 0 /\ loss_amount[e] >= stop_loss
        /\ running
        /\ \E d \in Sigs \ {e} : pc[d] \in {"send", "recv", "subscribe", "poll"}

\* C3: when the loss (win) settled by all executors together meets the global
\* threshold and the reporting executor's own threshold is not met, the running
\* flag is cleared.
C3_GlobalStopIsCumulative ==
    [][\A e \in Sigs : (Settles(e) /\ GlobalStopMet(e) /\ ~SignalStopMet(e)) =>
          ~running']_vars

\* C4: the global accumulators hold the sums of the wins and of the losses
\* settled by all executors.
C4_GlobalAccumulators ==
    /\ self_win_amount = sum_win
    /\ self_loss_amount = sum_loss

\* C5: an executor whose signal has martingale disabled calls buy at most once.
C5_NoMartingaleOneBuy ==
    \A e \in Sigs : ~signals[e].martingale => buys[e] <= 1

\* C5 witness: a signal without martingale lost its one trade with no threshold
\* met and the flag set, and its executor ended
C5_Witness ==
    \E e \in Sigs :
        /\ ~signals[e].martingale
        /\ pc[e] = "done"
        /\ buys[e] = 1
        /\ loss_amount[e] > 0
        /\ signals[e].stop_loss = 0 /\ stop_loss = 0
        /\ running

\* C6: the current stake is positive and never below the base stake, and it
\* changes only by doubling after a non-win and by the reset to the base stake
\* after a win.
C6_StakeBounds ==
    /\ \A e \in Sigs : current_stake[e] > 0 /\ current_stake[e] >= BaseStake
    /\ [][\A e \in Sigs :
            /\ current_stake'[e] > 0
            /\ current_stake'[e] >= BaseStake
            /\ current_stake'[e] # current_stake[e] =>
                  /\ Settles(e)
                  /\ \/ profit[e] <= 0 /\ current_stake'[e] = 2 * current_stake[e]
                     \/ profit[e] > 0 /\ current_stake'[e] = BaseStake]_vars

\* C6 witness: an executor doubled its stake after a loss and goes on
C6_Witness ==
    \E e \in Sigs :
        /\ pc[e] = "loop"
        /\ loss_amount[e] > 0
        /\ current_stake[e] = 2 * BaseStake

\* C11: of one call of api.buy by an executor at most one buy request reaches
\* the venue, whatever is lost or fails after the request was written.
C11_BuyRequestReachesVenueOnce ==
    \A e \in Sigs : orders[e] <= 1

\* executor e ends a poll attempt that brought no sold update of its contract
PollsInVain(e) ==
    /\ pc[e] = "poll"
    /\ inbox # << >>
    /\ ~IsSettlement(Head(inbox), contract_id[e])
    /\ attempts'[e] # attempts[e]
    /\ faults' = faults

\* C12: a settlement wait whose 300 poll attempts bring no sold update of its
\* contract returns profit 0 to _run_signal, normally, with the 300th receive
\* call; it makes no receive call beyond that one.
C12_PollTimeoutReturnsZero ==
    /\ \A e \in Sigs : attempts[e] < PollLimit
    /\ [][\A e \in Sigs :
            /\ attempts'[e] < PollLimit
            /\ (PollsInVain(e) /\ attempts[e] + 1 >= PollLimit) =>
                  (pc'[e] = "settle" /\ profit'[e] = 0)
            /\ (pc[e] = "poll" /\ pc'[e] \notin {"poll", "forget", "crashed"}) =>
                  (pc'[e] = "settle" /\ profit'[e] = 0 /\ attempts[e] + 1 = PollLimit)]_vars

\* C12 witness: a wait ran out of attempts (the status stream of its contract is
\* still live) and handed profit 0 to _run_signal
C12_Witness ==
    \E e \in Sigs : pc[e] = "settle" /\ profit[e] = 0 /\ subs # {}

\* the api.buy call of executor e ends without a response
BuyFails(e) ==
    /\ pc[e] \in {"send", "recv"}
    /\ pc'[e] \notin {"send", "recv"}
    /\ faults' # faults

\* executor e gets a buy response that carries no contract id
ReadsEmptyAck(e) ==
    /\ pc[e] = "recv"
    /\ inbox # << >>
    /\ Head(inbox).type = "buy"
    /\ Head(inbox).cid = NoContract
    /\ pc'[e] # "recv"
    /\ faults' = faults

C20_WinEndsLoop ==
    [][\A e \in Sigs :
          /\ (Settles(e) /\ profit[e] > 0) => pc'[e] = "done"
          /\ profit[e] > 0 =>
                /\ buys'[e] = buys[e]
                /\ ~SendsBuy(e)
                /\ pc'[e] \in {"forget", "settle", "done", "crashed"}]_vars

\* C20 witness: a martingale signal with no stop win set anywhere won, the flag
\* is set and there is room for another buy, and its executor has ended
C20_Witness ==
    \E e \in Sigs :
        /\ pc[e] = "done"
        /\ profit[e] > 0
        /\ win_amount[e] > 0
        /\ signals[e].martingale
        /\ signals[e].stop_win = 0 /\ stop_win = 0
        /\ running
        /\ TotalBuys < MaxBuys

\* C21: in flat-stake mode every buy request of the k-th buy call of an executor
\* with a martingale signal asks for the amount base stake x 2^(k-1), and so
\* does the stake it holds from that call's start up to its settlement.
C21_MartingaleAmounts ==
    [][\A e \in Sigs :
          (signals[e].martingale /\ pc[e] \in {"send", "recv", "subscribe", "poll", "forget"})
             => /\ buys[e] >= 1
                /\ Amount(current_stake[e], FALSE) = BaseStake * 2 ^ (buys[e] - 1)
                /\ SendsBuy(e) => Amount(current_stake'[e], FALSE) = BaseStake * 2 ^ (buys'[e] - 1)]_vars

\* C21 witness: the request of a third buy is out with four times the base stake
C21_Witness ==
    \E e \in Sigs :
        /\ signals[e].martingale
        /\ pc[e] = "recv"
        /\ buys[e] = 3
        /\ orders[e] = 1
        /\ Amount(current_stake[e], FALSE) = 4 * BaseStake

\* the stop loss of the signal of e, or the global one, is set and met by the
\* loss e has accumulated
StopLossMet(e) ==
    \/ signals[e].stop_loss > 0 /\ loss_amount[e] >= signals[e].stop_loss
    \/ stop_loss > 0 /\ loss_amount[e] >= stop_loss

\* executor e takes the test of its loop
TestsLoop(e) == pc[e] = "loop" /\ pc'[e] # "loop"

\* C22: the settlement of a profit of zero, the one of a wait that ran out of
\* attempts included, leaves the loss accumulators as they are; with martingale
\* enabled and no stop loss met it doubles the stake and goes back to the loop
\* test, which, when it finds the flag set, calls api.buy again.
C22_ZeroProfitIsLossOfZero ==
    [][\A e \in Sigs :
          /\ (Settles(e) /\ profit[e] = 0) =>
                /\ loss_amount' = loss_amount
                /\ self_loss_amount' = self_loss_amount
                /\ sum_loss' = sum_loss
                /\ (signals[e].martingale /\ ~StopLossMet(e)) =>
                      /\ current_stake'[e] = 2 * current_stake[e]
                      /\ pc'[e] = "loop"
          /\ (TestsLoop(e) /\ profit[e] = 0 /\ running) =>
                /\ pc'[e] = "send"
                /\ buys'[e] = buys[e] + 1
                /\ current_stake'[e] = current_stake[e]]_vars

\* C22 witness: a wait ran out of attempts with the status stream of its
\* contract still live, and its executor is in its second buy call with the
\* doubled stake and no loss added
C22_Witness ==
    \E e \in Sigs :
        /\ pc[e] = "send"
        /\ buys[e] = 2
        /\ profit[e] = 0
        /\ subs # {}
        /\ loss_amount[e] = 0
        /\ current_stake[e] = 2 * BaseStake

\* C23: an executor that is past its start-up (it tests its loop, buys, waits
\* for a settlement or has ended) finds the clock at or after the time of its
\* signal less the configured delay, and one that sleeps has sent nothing and
\* sleeps until that instant.
C23_NoMessageBeforeTrigger ==
    \A e \in Sigs :
        /\ pc[e] \notin {"idle", "wait", "sleep"} => now >= sig_time[e] - delay
        /\ pc[e] = "sleep" =>
              /\ wake_at[e] = sig_time[e] - delay
              /\ now < sig_time[e] - delay => (buys[e] = 0 /\ orders[e] = 0)

\* C23 witness: an executor that had to sleep has its buy request out at the
\* very second its sleep was due to end
C23_Witness ==
    \E e \in Sigs :
        /\ pc[e] = "recv"
        /\ orders[e] = 1
        /\ wake_at[e] > 0
        /\ wake_at[e] = sig_time[e] - delay
        /\ now = wake_at[e]

\* executor e ends a poll attempt that brought nothing and stays in the poll
\* loop: its next attempt has begun
PollsOn(e) == pc[e] = "poll" /\ attempts'[e] = attempts[e] + 1 /\ pc'[e] = "poll"

\* C24: with the running flag cleared, the loop test of an executor ends its
\* loop, and an executor that awaits a settlement begins no poll attempt after
\* the one it is in.
C24_StopObservedWhilePolling ==
    [][\A e \in Sigs :
          /\ (TestsLoop(e) /\ ~running) => pc'[e] = "done"
          /\ ~running => ~PollsOn(e)]_vars

\* the sold update of the contract executor d polls for is read from the
\* connection, by whichever thread, with no transport failure
SoldUpdateRead(d) ==
    /\ pc[d] = "poll"
    /\ inbox # << >>
    /\ IsSettlement(Head(inbox), contract_id[d])
    /\ inbox' = Tail(inbox)
    /\ faults' = faults

\* executor e sends its forget_all
Forgets(e) == pc[e] = "forget" /\ pc'[e] = "settle"

\* C28: the sold update of the contract an executor polls for is read by that
\* executor, which records the profit it reports, and the forget_all of
\* another executor leaves the status stream of that contract live.
C28_SettlementReachesOwner ==
    [][\A d \in Sigs :
          /\ SoldUpdateRead(d) =>
                (pc'[d] = "forget" /\ profit'[d] = Head(inbox).profit)
          /\ \A e \in Sigs \ {d} :
                (Forgets(e) /\ pc[d] = "poll" /\ contract_id[d] \in subs) =>
                    contract_id[d] \in subs']_vars

\* C10: the contract id an executor took from a buy response is the one the
\* venue gave to an order of that executor.
C10_AckBelongsToRequester ==
    \A e \in Sigs : contract_id[e] # NoContract => OwnerOf(contract_id[e]) = e

-----------------------------------------------------------------------------
(* Properties of start, stop and the pinger *)

\* no executor thread is alive: each one has ended or was never started
NoExecutorAlive == \A e \in Sigs : pc[e] = "idle" \/ Finished(e)

\* C13: the connection is closed only when no executor is alive, and a stop()
\* that has returned left the flag cleared, no executor alive and the
\* connection of a started bot closed by its supervisor.
C13_StopWaitsForExecutorsAndClose ==
    [][/\ (ws # "closed" /\ ws' = "closed") => NoExecutorAlive
       /\ (stopper # "returned" /\ stopper' = "returned") =>
             /\ ~running'
             /\ NoExecutorAlive
             /\ thread \in {"none", "done"}]_vars

\* a call of start() is made in this step
StartCalled == n_start' = n_start + 1

\* C25: once the supervisor has closed the connection and ended, and as long as
\* no other run is started, the connection stays closed and nothing is written
\* to it: the pinger sends no keepalive and opens no new connection.
C25_ConnectionStaysClosed ==
    [][(ws = "closed" /\ thread = "done" /\ n_run = 1) =>
          /\ ws' = "closed"
          /\ inbox' = inbox
          /\ last_ping' = last_ping]_vars

\* the _run thread that was launched first is alive
RunAlive == thread \in {"connect", "spawn", "join"}

\* C26: start() and stop() being called one after the other (no start() while
\* a stop() is still joining), a _run thread is launched only when none is
\* alive: never while the supervisor of an earlier start still connects,
\* spawns or joins its executors.
C26_OneRunAtATime ==
    [][(n_run' > n_run /\ stopper # "join") => ~RunAlive]_vars

\* C27: under fairness, an executor that waits for its buy response while the
\* running flag is cleared leaves that wait in the end, and a stop() that
\* joins the supervisor returns in the end.
C27_StopTerminates ==
    /\ \A e \in Sigs : (~running /\ pc[e] = "recv") ~> (pc[e] # "recv")
    /\ (stopper = "join") ~> (stopper = "returned")

\* C14: a call of start() made while the running flag is set changes nothing:
\* no connection is opened, no supervisor and no pinger is started, no executor
\* is spawned or moved, so the executors of each signal stay as they were.
C14_StartWhileRunningIsNoOp ==
    [][(StartCalled /\ running) =>
          UNCHANGED << running, thread, engine_state, avars, auth, pinger, last_ping,
                       pings, stopper, n_run >>]_vars

\* C14 witness: start() was called a second time while the flag was set and the
\* executors were at work, and there is still one supervisor run
C14_Witness ==
    /\ n_start = 2
    /\ n_run = 1
    /\ running
    /\ thread = "join"
    /\ \E e \in Sigs : pc[e] \in {"send", "recv", "subscribe", "poll"}

\* C15: when the reply to the authorize message of the engine start carries an
\* error, the supervisor ends there: it makes no further step, the pinger is
\* never started, no executor is spawned and no buy call is made.
C15_AuthErrorAbortsStart ==
    [][/\ (auth # "error" /\ auth' = "error") =>
             /\ thread' = "aborted"
             /\ pinger' = "none"
             /\ \A e \in Sigs : pc'[e] = "idle" /\ buys'[e] = 0 /\ orders'[e] = 0
             /\ inbox' = << >>
       /\ auth = "error" =>
             UNCHANGED << thread, auth, ws, pinger, pc, buys, orders, inbox >>]_vars

\* C15 witness: the start was aborted on an error reply while the flag is set
C15_Witness ==
    /\ auth = "error"
    /\ thread = "aborted"
    /\ running

\* C17: whatever becomes of a keepalive send, the pinger goes back to its loop
\* test; there it goes on to the next keepalive when the flag is set and ends
\* when the flag is cleared.
C17_PingFailureKeepsPinger ==
    [][/\ pinger = "send" => pinger' \in {"send", "check"}
       /\ (pinger = "check" /\ pinger' # "check") =>
             pinger' = IF running THEN "send" ELSE "done"]_vars

\* C17 witness: a keepalive send failed and the pinger, having found the flag
\* set, is about to send the next one
C17_Witness ==
    /\ last_ping = "failed"
    /\ pinger = "send"
    /\ running

-----------------------------------------------------------------------------
(* Properties of the schedule parser *)

\* the number of ';'-separated fields of a line
FieldCount(line) == Cardinality({i \in 1 .. Len(line) : line[i] = Semi}) + 1

\* the DATE and TIME fields of a line do not make a date and a time
Unparseable(line) ==
    /\ FieldCount(line) >= 2
    /\ ~Matches(Strip(Split(line)[1]) \o << Blank >> \o Strip(Split(line)[2]))

IllFormed(line) == FieldCount(line) # 5 \/ Unparseable(line)

\* C18: parse_signal fails on every line that has not 5 fields or whose date
\* and time cannot be parsed, and gives no Signal; no row and no entry of the
\* bot's schedule comes from such a line, and a load that meets one shows an
\* error.
C18_IllFormedLineRejected ==
    /\ \A i \in 1 .. Len(signals_text) :
          IllFormed(signals_text[i]) =>
              /\ ~parse_signal(signals_text[i]).ok
              /\ parse_signal(signals_text[i]).sig = NoSignal
    /\ Len(row_signals) = Len(row_lines)
    /\ \A i \in 1 .. Len(row_lines) : ~IllFormed(row_lines[i])
    /\ Len(bot_signals) <= Len(row_signals)
    /\ \A i \in 1 .. Len(bot_signals) :
          \E j \in 1 .. Len(row_signals) : bot_signals[i] = row_signals[j]
    /\ (loaded /\ \E i \in 1 .. Len(signals_text) :
                     IllFormed(signals_text[i]) /\ Strip(signals_text[i]) # << >>)
          => load_error = "shown"

\* C18 witness: the second line of the text lacks a field; the load showed an
\* error and a bot was started with the one row of the line before it
C18_Witness ==
    /\ Len(signals_text) = 2
    /\ FieldCount(signals_text[2]) = 4
    /\ load_error = "shown"
    /\ Len(row_lines) = 1
    /\ Len(bot_signals) = 1

\* the SYMBOL field of a line of five fields, without the blanks around it
SymbolField(line) == Strip(Split(line)[3])

\* the symbol the alias table gives for a field
Alias(field) ==
    IF Upper(field) \in DOMAIN PAIR_MAP THEN PAIR_MAP[Upper(field)] ELSE Upper(field)

\* C19: the symbol of every parsed Signal is the alias-table value of its
\* uppercased SYMBOL field when the table has that key, and the uppercased
\* field itself when not.
C19_SymbolThroughAliasTable ==
    /\ \A i \in 1 .. Len(signals_text) :
          parse_signal(signals_text[i]).ok =>
              parse_signal(signals_text[i]).sig.symbol = Alias(SymbolField(signals_text[i]))
    /\ \A i \in 1 .. Len(row_signals) :
          row_signals[i].symbol = Alias(SymbolField(row_lines[i]))

\* C19 witness: one row got the venue's name of a pair written in lower case,
\* another kept a symbol the table does not have
C19_Witness ==
    \E i, j \in 1 .. Len(row_signals) :
        /\ SymbolField(row_lines[i]) = << Word(<< "e", "u", "r", "u", "s", "d" >>) >>
        /\ row_signals[i].symbol = << Word(<< "f", "r", "x", "E", "U", "R", "U", "S", "D" >>) >>
        /\ SymbolField(row_lines[j]) = Gold
        /\ row_signals[j].symbol = Gold

-----------------------------------------------------------------------------
(* Properties of the venue client *)

\* the call the caller made is over and returned normally
CallReturned(o) == op = o /\ stack = << >> /\ ret = "ok"

\* C7: one call of safe_send on an open connection makes at most one reconnect
\* and writes its message at most twice, whatever fails.
C7_SendReconnectsOnce ==
    (op = "send" /\ was_open) => (n_reconnect <= 1 /\ n_write <= 2)

\* C8: one call of recv on an open connection makes at most one reconnect and
\* at most two reads, whatever fails.
C8_RecvReconnectsOnce ==
    (op = "recv" /\ was_open) => (n_reconnect <= 1 /\ n_read <= 2)

\* C9: a call of buy that returns normally returns a buy response.
C9_BuyReturnsBuyResponse ==
    CallReturned("buy") => retval = "buy"

====
